---- MODULE Spec2Model ----
(***************************************************************************)
(* Model of crowd_anki/export/anki_exporter.py (class AnkiJsonExporter):   *)
(* export_to_directory, export_to_github, _save_changes and _copy_media.   *)
(*                                                                         *)
(* Strings whose characters matter (repository paths, the target file      *)
(* name) are sequences of one-character strings.                           *)
(* The parameter the source names `pass` (line 60) is read as an ordinary  *)
(* parameter name; it takes no part in any modelled behaviour.             *)
(***************************************************************************)
EXTENDS Integers, Sequences, FiniteSets, TLC

\* ---------------------------------------------------------------- bounds
MaxDecks == 3
MaxConfigs == 2
MaxModels == 2
MaxNotes == 1
MaxMedia == 2
MaxEntries == 3
MaxExports == 2

\* ------------------------------------------------------- generic helpers
EmptyFn == [e \in {} |-> 0]

Range(s) == {s[i] : i \in 1..Len(s)}

RECURSIVE Concat(_)
Concat(ss) == IF ss = <<>> THEN <<>> ELSE Head(ss) \o Concat(Tail(ss))

RECURSIVE SetToSortedSeq(_)
SetToSortedSeq(S) ==
    IF S = {} THEN <<>>
    ELSE LET m == CHOOSE x \in S : \A y \in S : x <= y
         IN <<m>> \o SetToSortedSeq(S \ {m})

RECURSIVE Dedup(_)
\* first occurrences of a sequence, in order: the insertion order of a dict
Dedup(s) ==
    IF s = <<>> THEN <<>>
    ELSE LET r == Dedup(SubSeq(s, 1, Len(s) - 1))
             x == s[Len(s)]
         IN IF x \in Range(r) THEN r ELSE Append(r, x)

IndexOf(s, x) == CHOOSE i \in 1..Len(s) : s[i] = x

Count(s, P(_)) == Cardinality({i \in 1..Len(s) : P(s[i])})

\* ------------------------------------------------------------- variables
VARIABLES
    collection,           \* self.collection: decks, stable ids, media dir
    uuid_clock,           \* source of fresh stable identifiers (uuid1)
    saves,                \* calls of collection.decks.save / models.save
    last_exported_count,  \* self.last_exported_count
    args,                 \* arguments of the export call in progress
    deck,                 \* local `deck`: the snapshot of from_collection
    pc,                   \* position in the export call
    result,               \* how the call ended
    stack,                \* call stack of _save_changes
    deck_file,            \* the JSON file of the directory sink
    media_todo,           \* rest of the loop of _copy_media
    media_copied,         \* files present in the media subdirectory
    printed,              \* failures reported by _copy_media
    remote,               \* the GitHub side: repository entries
    contents,             \* local `contents` of export_to_github
    all_files,            \* local `all_files` of export_to_github
    calls,                \* remote calls issued by the call in progress
    remote_before,        \* the repository when the call in progress began
    exports,              \* per export: sink, new identifiers, output, result
    remaining             \* exports still to be started

vars == <<collection, uuid_clock, saves, last_exported_count, args, deck, pc,
          result, stack, deck_file, media_todo, media_copied, printed, remote,
          contents, all_files, calls, remote_before, exports, remaining>>

dirVars == <<deck_file, media_todo, media_copied, printed>>
ghVars == <<remote, contents, all_files, calls, remote_before>>

\* ------------------------------------------------- the collection store
DeckEnt(d) == <<"deck", d>>
ConfigEnt(c) == <<"config", c>>
ModelEnt(m) == <<"model", m>>

Entities(n) ==
    {DeckEnt(d) : d \in 1..n} \cup {ConfigEnt(c) : c \in 1..MaxConfigs}
        \cup {ModelEnt(m) : m \in 1..MaxModels}

\* deck trees: deck 1 is the exported deck, parent[d] < d
Parents(n) == {p \in [1..n -> 0..n] : \A d \in 1..n :
                  IF d = 1 THEN p[d] = 0 ELSE p[d] \in 1..(d - 1)}

NoteSeqs == UNION {[1..k -> 1..MaxModels] : k \in 0..MaxNotes}

MediaLists == UNION {{[i \in 1..k |-> i]} : k \in 0..MaxMedia}

children(c, d) == SelectSeq([i \in 1..c.n |-> i], LAMBDA i : c.parent[i] = d)

RECURSIVE Preorder(_, _)
Preorder(c, d) ==
    <<d>> \o Concat([i \in 1..Len(children(c, d)) |->
                        Preorder(c, children(c, d)[i])])

\* ------------------------------------------------------------- snapshot
NoDeck ==
    [order |-> <<>>, uuid |-> EmptyFn, notes |-> <<>>,
     metadata |-> [deck_configs |-> <<>>, models |-> <<>>], media |-> <<>>]

RECURSIVE sort_notes(_)
sort_notes(ns) ==
    IF ns = <<>> THEN <<>>
    ELSE LET m == CHOOSE x \in Range(ns) : \A y \in Range(ns) : x <= y
             i == IndexOf(ns, m)
         IN <<m>> \o sort_notes(SubSeq(ns, 1, i - 1) \o SubSeq(ns, i + 1, Len(ns)))

SnapshotEntities(c) ==
    LET order == Preorder(c, 1)
        confs == Dedup([i \in 1..Len(order) |-> c.conf[order[i]]])
        models == Dedup(Concat([i \in 1..Len(order) |-> c.notes[order[i]]]))
    IN [i \in 1..Len(order) |-> DeckEnt(order[i])]
         \o [i \in 1..Len(confs) |-> ConfigEnt(confs[i])]
         \o [i \in 1..Len(models) |-> ModelEnt(models[i])]

Lacking(c) == SelectSeq(SnapshotEntities(c), LAMBDA e : c.uuid[e] = 0)

\* deck_initializer.from_collection: the deck, its descendants, the closure
\* of configs and models, every entity lacking a stable id given a fresh one
\* in the snapshot only (the store is written by _save_changes)
from_collection(c, clock) ==
    LET order == Preorder(c, 1)
        ents == SnapshotEntities(c)
        lack == Lacking(c)
    IN [order |-> order,
        uuid |-> [e \in Range(ents) |->
                    IF c.uuid[e] # 0 THEN c.uuid[e]
                    ELSE clock + IndexOf(lack, e)],
        notes |-> [d \in 1..c.n |-> c.notes[d]],
        metadata |->
            [deck_configs |-> Dedup([i \in 1..Len(order) |-> c.conf[order[i]]]),
             models |-> Dedup(Concat([i \in 1..Len(order) |-> c.notes[order[i]]]))],
        media |-> c.media]

get_note_count(dk) ==
    LET RECURSIVE Sum(_)
        Sum(s) == IF s = <<>> THEN 0 ELSE Len(dk.notes[Head(s)]) + Sum(Tail(s))
    IN Sum(dk.order)

\* json.dumps(deck, default=Deck.default_json, sort_keys=True, ...): the
\* decks in tree order with their notes in sequence order; the metadata
\* mappings, keyed by stable id, come out in key order
json_dumps(c, dk) ==
    [decks |-> [i \in 1..Len(dk.order) |->
                  [crowdanki_uuid |-> dk.uuid[DeckEnt(dk.order[i])],
                   parent |-> c.parent[dk.order[i]],
                   deck_config_uuid |-> dk.uuid[ConfigEnt(c.conf[dk.order[i]])],
                   notes |-> [j \in 1..Len(dk.notes[dk.order[i]]) |->
                                dk.uuid[ModelEnt(dk.notes[dk.order[i]][j])]]]],
     deck_configs |-> SetToSortedSeq({dk.uuid[ConfigEnt(x)] :
                                        x \in Range(dk.metadata.deck_configs)}),
     note_models |-> SetToSortedSeq({dk.uuid[ModelEnt(x)] :
                                        x \in Range(dk.metadata.models)})]

NoOutput == [decks |-> <<>>, deck_configs |-> <<>>, note_models |-> <<>>]

OutputIds(o) ==
    {o.decks[i].crowdanki_uuid : i \in 1..Len(o.decks)}
        \cup Range(o.deck_configs) \cup Range(o.note_models)

StoreIds == {collection.uuid[e] : e \in DOMAIN collection.uuid} \ {0}

\* ------------------------------------------------------ character strings
\* str(file) of a ContentFile is ContentFile(path="<path>")
REPR_PREFIX ==
    <<"C", "o", "n", "t", "e", "n", "t", "F", "i", "l", "e", "(", "p", "a",
      "t", "h", "=", "\"">>
REPR_SUFFIX == <<"\"", ")">>

repr(path) == REPR_PREFIX \o path \o REPR_SUFFIX

RECURSIVE replace(_, _)
\* str.replace(old, ''): every non-overlapping occurrence, left to right
replace(s, old) ==
    IF Len(s) < Len(old) THEN s
    ELSE IF SubSeq(s, 1, Len(old)) = old
         THEN replace(SubSeq(s, Len(old) + 1, Len(s)), old)
         ELSE <<Head(s)>> \o replace(Tail(s), old)

\* line 109: the string appended to all_files for a listed ContentFile
ListedName(path) == replace(replace(repr(path), REPR_PREFIX), REPR_SUFFIX)

DECK_FILE_EXTENSION == <<".", "j", "s", "o", "n">>
deck_file_name == <<"d">>
SanitizedDeckName == <<"D">>

\* lines 72-76
TargetFilename(create_deck_subdirectory) ==
    (IF create_deck_subdirectory THEN SanitizedDeckName \o <<"/">> ELSE <<>>)
        \o deck_file_name \o DECK_FILE_EXTENSION

\* -------------------------------------------------- the remote repository
\* entries 1..n; parent 0 is the root; a file carries a version token (sha)
\* made of its blob and of whether its content equals the new export
DeckJsonName == deck_file_name \o DECK_FILE_EXTENSION
QuotedName == <<"d", "\"", ")">> \o DECK_FILE_EXTENSION

EntryKinds ==
    {[type |-> "dir", name |-> SanitizedDeckName, content |-> "none"],
     [type |-> "file", name |-> DeckJsonName, content |-> "same"],
     [type |-> "file", name |-> DeckJsonName, content |-> "other"],
     [type |-> "file", name |-> QuotedName, content |-> "other"]}

RECURSIVE EntryPath(_, _)
EntryPath(r, i) ==
    IF r.parent[i] = 0 THEN r.entry[i].name
    ELSE EntryPath(r, r.parent[i]) \o <<"/">> \o r.entry[i].name

Sha(r, i) == <<i, r.entry[i].content>>

IsDir(r, i) == r.entry[i].type = "dir"

ValidRepository(r) ==
    /\ \A i \in 1..r.n :
         /\ r.parent[i] # 0 => IsDir(r, r.parent[i])
         /\ IsDir(r, i) => \E j \in 1..r.n : r.parent[j] = i
    /\ \A i, j \in 1..r.n :
         (i # j /\ r.parent[i] = r.parent[j]) => r.entry[i].name # r.entry[j].name

Repositories(maxEntries) ==
    UNION {{r \in [n : {k}, parent : [1..k -> 0..k], entry : [1..k -> EntryKinds]] :
              /\ \A i \in 1..k : r.parent[i] < i
              /\ ValidRepository(r)} : k \in 0..maxEntries}

\* repo.get_contents(path) of a directory: its entries, in listing order
DirContents(r, d) == SelectSeq([i \in 1..r.n |-> i], LAMBDA i : r.parent[i] = d)

FilesAt(r, path) == {i \in 1..r.n : ~IsDir(r, i) /\ EntryPath(r, i) = path}
EntriesAt(r, path) == {i \in 1..r.n : EntryPath(r, i) = path}

\* the repository after a successful create_file(path, ..., new_contents)
WithFile(r, path, subdir) ==
    LET dirs == {i \in 1..r.n : IsDir(r, i) /\ r.parent[i] = 0}
        file == [type |-> "file", name |-> DeckJsonName, content |-> "same"]
    IN IF ~subdir
       THEN [n |-> r.n + 1, parent |-> Append(r.parent, 0),
             entry |-> Append(r.entry, file)]
       ELSE IF dirs # {}
       THEN [n |-> r.n + 1, parent |-> Append(r.parent, CHOOSE i \in dirs : TRUE),
             entry |-> Append(r.entry, file)]
       ELSE [n |-> r.n + 2, parent |-> r.parent \o <<0, r.n + 1>>,
             entry |-> r.entry \o
                 <<[type |-> "dir", name |-> SanitizedDeckName, content |-> "none"],
                   file>>]

\* the repository after a successful update_file of entry i
WithUpdate(r, i) == [r EXCEPT !.entry[i].content = "same"]

\* --------------------------------------------------------- end of a call
Finish(r) ==
    /\ result' = r
    /\ pc' = "idle"
    /\ exports' = [exports EXCEPT ![Len(exports)].result = r]

Begin(op, dk) ==
    /\ pc = "idle" /\ remaining > 0
    /\ remaining' = remaining - 1
    /\ deck' = [dk EXCEPT !.notes[1] = sort_notes(dk.notes[1])]
    /\ uuid_clock' = uuid_clock + Len(Lacking(collection))
    /\ exports' = Append(exports,
                    [op |-> op, output |-> NoOutput, result |-> "running",
                     assigned |-> {dk.uuid[e] : e \in Range(Lacking(collection))}])
    /\ result' = "running"
    /\ saves' = <<>>
    /\ calls' = <<>>
    /\ stack' = <<>>
    /\ deck_file' = NoOutput
    /\ media_todo' = <<>>
    /\ media_copied' = {}
    /\ printed' = <<>>
    /\ contents' = <<>>
    /\ all_files' = <<>>
    /\ remote_before' = remote
    /\ UNCHANGED <<collection, remote>>

Serialized(o) == exports' = [exports EXCEPT ![Len(exports)].output = o]

\* --------------------------------------------------- export_to_directory
\* lines 43, 80: self.last_exported_count = deck.get_note_count()
CountNotRecorded(dk) == last_exported_count
CountAfterSnapshot(dk) == get_note_count(dk)

\* lines 33-43
export_to_directory ==
    /\ Begin("directory", from_collection(collection, uuid_clock))
    /\ args' = [args EXCEPT !.op = "directory"]
    /\ last_exported_count' =
           CountAfterSnapshot(from_collection(collection, uuid_clock))
    /\ pc' = "write"

Frame(d, child) == [deck |-> d, is_export_child |-> child, pos |-> "deck", idx |-> 1]

\* lines 45-53: the file is written, then _save_changes(deck) is entered
WriteDeckFile ==
    /\ pc = "write"
    /\ deck_file' = json_dumps(collection, deck)
    /\ Serialized(json_dumps(collection, deck))
    /\ stack' = <<Frame(1, FALSE)>>
    /\ pc' = "save"
    /\ UNCHANGED <<collection, uuid_clock, saves, last_exported_count, args,
                   deck, result, media_todo, media_copied, printed, ghVars,
                   remaining>>

\* ---------------------------------------------------------- _save_changes
Top == stack[Len(stack)]
SetTop(f) == [stack EXCEPT ![Len(stack)] = f]

SaveEntry(api, e) ==
    [api |-> api, entity |-> e, child |-> Top.is_export_child,
     depth |-> Len(stack)]

store(c, e) == [c EXCEPT !.uuid[e] = deck.uuid[e]]

saveFrame == <<uuid_clock, last_exported_count, args, deck, pc, result,
               dirVars, ghVars, exports, remaining>>

\* line 139: deck.children
FirstChildOnly(d) ==
    IF children(collection, d) = <<>> THEN <<>>
    ELSE <<Head(children(collection, d))>>
child_decks(d) == children(collection, d)

\* line 138
SaveDeck ==
    /\ pc = "save" /\ stack # <<>> /\ Top.pos = "deck"
    /\ saves' = Append(saves, SaveEntry("decks.save", DeckEnt(Top.deck)))
    /\ collection' = store(collection, DeckEnt(Top.deck))
    /\ stack' = SetTop([Top EXCEPT !.pos = "children", !.idx = 1])
    /\ UNCHANGED saveFrame

\* lines 139-140
SaveChild ==
    /\ pc = "save" /\ stack # <<>> /\ Top.pos = "children"
    /\ Top.idx <= Len(child_decks(Top.deck))
    /\ stack' = Append(SetTop([Top EXCEPT !.idx = @ + 1]),
                       Frame(child_decks(Top.deck)[Top.idx], TRUE))
    /\ UNCHANGED <<collection, saves>>
    /\ UNCHANGED saveFrame

\* line 142: does this call save the deck configs and the note models?
EveryCallSavesMetadata(f) == TRUE
SavesMetadata(f) == ~f.is_export_child

\* lines 139, 142: the loop over the children is over
SaveChildrenDone ==
    /\ pc = "save" /\ stack # <<>> /\ Top.pos = "children"
    /\ Top.idx > Len(child_decks(Top.deck))
    /\ stack' = SetTop([Top EXCEPT
                          !.pos = IF SavesMetadata(Top) THEN "configs" ELSE "end",
                          !.idx = 1])
    /\ UNCHANGED <<collection, saves>>
    /\ UNCHANGED saveFrame

\* lines 143-144
SaveConfig ==
    /\ pc = "save" /\ stack # <<>> /\ Top.pos = "configs"
    /\ IF Top.idx <= Len(deck.metadata.deck_configs)
       THEN LET e == ConfigEnt(deck.metadata.deck_configs[Top.idx])
            IN /\ saves' = Append(saves, SaveEntry("decks.save", e))
               /\ collection' = store(collection, e)
               /\ stack' = SetTop([Top EXCEPT !.idx = @ + 1])
       ELSE /\ stack' = SetTop([Top EXCEPT !.pos = "models", !.idx = 1])
            /\ UNCHANGED <<collection, saves>>
    /\ UNCHANGED saveFrame

\* lines 146-147
SaveModel ==
    /\ pc = "save" /\ stack # <<>> /\ Top.pos = "models"
    /\ IF Top.idx <= Len(deck.metadata.models)
       THEN LET e == ModelEnt(deck.metadata.models[Top.idx])
            IN /\ saves' = Append(saves, SaveEntry("models.save", e))
               /\ collection' = store(collection, e)
               /\ stack' = SetTop([Top EXCEPT !.idx = @ + 1])
       ELSE /\ stack' = SetTop([Top EXCEPT !.pos = "end"])
            /\ UNCHANGED <<collection, saves>>
    /\ UNCHANGED saveFrame

\* the call returns; the top-level return goes on with line 55
SaveReturn ==
    /\ pc = "save" /\ stack # <<>> /\ Top.pos = "end"
    /\ stack' = SubSeq(stack, 1, Len(stack) - 1)
    /\ pc' = IF Len(stack) > 1 THEN "save"
             ELSE IF args.copy_media THEN "copy_media" ELSE "return"
    /\ UNCHANGED <<collection, uuid_clock, saves, last_exported_count, args,
                   deck, result, dirVars, ghVars, exports, remaining>>

_save_changes ==
    \/ SaveDeck \/ SaveChild \/ SaveChildrenDone \/ SaveConfig \/ SaveModel
    \/ SaveReturn

\* ------------------------------------------------------------ _copy_media
copyFrame == <<collection, uuid_clock, saves, last_exported_count, args, deck,
               result, stack, deck_file, ghVars, exports, remaining>>

\* lines 152-156: the media directory is made, the loop starts
CopyMediaStart ==
    /\ pc = "copy_media"
    /\ media_todo' = deck.media
    /\ pc' = "copy_loop"
    /\ UNCHANGED <<media_copied, printed>>
    /\ UNCHANGED copyFrame

\* lines 157-161: the files still to copy after a copy that failed
AbortAfterCopyFailure(todo) == <<>>
AfterCopyFailure(todo) == Tail(todo)

\* lines 156-161: one turn of the loop
CopyMediaFile ==
    /\ pc = "copy_loop" /\ media_todo # <<>>
    /\ LET file_src == Head(media_todo)
       IN IF file_src \in collection.readable
          THEN /\ media_copied' = media_copied \cup {file_src}
               /\ printed' = printed
               /\ media_todo' = Tail(media_todo)
          ELSE /\ printed' = Append(printed, file_src)
               /\ media_copied' = media_copied
               /\ media_todo' = AfterCopyFailure(media_todo)
    /\ pc' = "copy_loop"
    /\ UNCHANGED copyFrame

CopyMediaDone ==
    /\ pc = "copy_loop" /\ media_todo = <<>>
    /\ pc' = "return"
    /\ UNCHANGED <<media_todo, media_copied, printed>>
    /\ UNCHANGED copyFrame

_copy_media == CopyMediaStart \/ CopyMediaFile \/ CopyMediaDone

\* line 58
DirectoryReturn ==
    /\ pc = "return"
    /\ Finish("deck_directory")
    /\ UNCHANGED <<collection, uuid_clock, saves, last_exported_count, args,
                   deck, stack, dirVars, ghVars, remaining>>

\* ------------------------------------------------------ export_to_github
NoSha == <<0, "none">>

Call(op, path, sha, ok) == [op |-> op, path |-> path, sha |-> sha, ok |-> ok]

FinishWith(r, o) ==
    /\ result' = r
    /\ pc' = "idle"
    /\ exports' = [exports EXCEPT ![Len(exports)].result = r,
                                  ![Len(exports)].output = o]

\* notifier.warning(...) is returned; with the default notifier=None the
\* attribute lookup on None raises instead
warning(w) == Finish(IF args.notifier = "none" THEN "raised" ELSE w)

\* lines 86-90, 97-98: does a failed call end the export?
AuthFailureIgnored(op) == op # "get_user"
FailedCallEnds(op) == TRUE

ghFrame == <<collection, uuid_clock, saves, last_exported_count, args, deck,
             stack, dirVars, remaining, remote_before>>

\* lines 72-82
export_to_github ==
    /\ Begin("github", from_collection(collection, uuid_clock))
    /\ args' = [args EXCEPT !.op = "github",
                  !.filename = TargetFilename(args.create_deck_subdirectory)]
    /\ last_exported_count' =
           CountAfterSnapshot(from_collection(collection, uuid_clock))
    /\ pc' = "get_user"

\* lines 84-90
GetUser ==
    /\ pc = "get_user"
    /\ \E ok \in BOOLEAN :
         /\ calls' = Append(calls, Call("get_user", <<>>, NoSha, ok))
         /\ IF ok \/ ~FailedCallEnds("get_user")
            THEN pc' = "get_repo" /\ UNCHANGED <<result, exports>>
            ELSE warning("warning_auth")
    /\ UNCHANGED <<remote, contents, all_files>>
    /\ UNCHANGED ghFrame

\* lines 95-98: the name GITHUB_REPO is not bound in this module; where no
\* importer binds it the lookup raises NameError before any remote call,
\* and the bare except reports it as a missing repository
GetRepo ==
    /\ pc = "get_repo"
    /\ IF args.GITHUB_REPO = "unbound"
       THEN /\ warning("warning_repo")
            /\ UNCHANGED calls
       ELSE \E ok \in BOOLEAN :
              /\ calls' = Append(calls, Call("get_repo", <<>>, NoSha, ok))
              /\ IF ok \/ ~FailedCallEnds("get_repo")
                 THEN pc' = "list_root" /\ UNCHANGED <<result, exports>>
                 ELSE warning("warning_repo")
    /\ UNCHANGED <<remote, contents, all_files>>
    /\ UNCHANGED ghFrame

\* lines 100-101: get_contents("") of a repository without any entry fails
ListRoot ==
    /\ pc = "list_root"
    /\ \E ok \in (IF remote.n = 0 THEN {FALSE} ELSE BOOLEAN) :
         /\ calls' = Append(calls, Call("list", <<>>, NoSha, ok))
         /\ IF ok
            THEN /\ contents' = DirContents(remote, 0)
                 /\ pc' = "list_loop"
                 /\ UNCHANGED <<result, exports>>
            ELSE /\ Finish("raised")
                 /\ UNCHANGED contents
    /\ all_files' = <<>>
    /\ UNCHANGED remote
    /\ UNCHANGED ghFrame

\* lines 103-109: one turn of the loop
ListLoop ==
    /\ pc = "list_loop" /\ contents # <<>>
    /\ LET file_content == Head(contents)
       IN IF IsDir(remote, file_content)
          THEN \E ok \in BOOLEAN :
                 /\ calls' = Append(calls,
                       Call("list", EntryPath(remote, file_content), NoSha, ok))
                 /\ IF ok
                    THEN /\ contents' = Tail(contents)
                                          \o DirContents(remote, file_content)
                         /\ UNCHANGED <<pc, result, exports>>
                    ELSE /\ Finish("raised")
                         /\ contents' = Tail(contents)
                 /\ UNCHANGED all_files
          ELSE /\ contents' = Tail(contents)
               /\ all_files' = Append(all_files,
                                  ListedName(EntryPath(remote, file_content)))
               /\ UNCHANGED <<calls, pc, result, exports>>
    /\ UNCHANGED remote
    /\ UNCHANGED ghFrame

\* line 112: update the existing file or create a new one
AlwaysCreate(filename, files) == "create"
UploadBranch(filename, files) ==
    IF filename \in Range(files) THEN "fetch" ELSE "create"

\* lines 103, 111-112
ListDone ==
    /\ pc = "list_loop" /\ contents = <<>>
    /\ pc' = UploadBranch(args.filename, all_files)
    /\ UNCHANGED <<remote, contents, all_files, calls, result, exports>>
    /\ UNCHANGED ghFrame

\* line 113
GetFile ==
    /\ pc = "fetch"
    /\ \E ok \in (IF FilesAt(remote, args.filename) = {} THEN {FALSE} ELSE BOOLEAN) :
         /\ calls' = Append(calls, Call("get_file", args.filename, NoSha, ok))
         /\ IF ok
            THEN /\ contents' = <<CHOOSE i \in FilesAt(remote, args.filename) : TRUE>>
                 /\ pc' = "update"
                 /\ UNCHANGED <<result, exports>>
            ELSE /\ warning("warning_unknown")
                 /\ UNCHANGED contents
    /\ UNCHANGED <<remote, all_files>>
    /\ UNCHANGED ghFrame

\* lines 114-115, 119-123
UpdateFile ==
    /\ pc = "update"
    /\ \E ok \in BOOLEAN :
         /\ calls' = Append(calls, Call("update_file",
                        EntryPath(remote, contents[1]), Sha(remote, contents[1]), ok))
         /\ remote' = IF ok THEN WithUpdate(remote, contents[1]) ELSE remote
         /\ FinishWith(IF ok THEN "True"
                       ELSE IF args.notifier = "none" THEN "raised"
                       ELSE "warning_unknown",
                       json_dumps(collection, deck))
    /\ UNCHANGED <<contents, all_files>>
    /\ UNCHANGED ghFrame

\* lines 117-123: create_file on a path that exists is refused
CreateFile ==
    /\ pc = "create"
    /\ \E ok \in (IF EntriesAt(remote, args.filename) # {} THEN {FALSE} ELSE BOOLEAN) :
         /\ calls' = Append(calls, Call("create_file", args.filename, NoSha, ok))
         /\ remote' = IF ok THEN WithFile(remote, args.filename,
                                          args.create_deck_subdirectory)
                      ELSE remote
         /\ FinishWith(IF ok THEN "True"
                       ELSE IF args.notifier = "none" THEN "raised"
                       ELSE "warning_unknown",
                       json_dumps(collection, deck))
    /\ UNCHANGED <<contents, all_files>>
    /\ UNCHANGED ghFrame

\* ------------------------------------------------------------------ Init
NoArgs ==
    [op |-> "none", copy_media |-> FALSE, create_deck_subdirectory |-> FALSE,
     notifier |-> "given", GITHUB_REPO |-> "bound", filename |-> <<>>]

EmptyRepository == [n |-> 0, parent |-> <<>>, entry |-> <<>>]

StoredId(e) == IF e[1] = "deck" THEN e[2] ELSE IF e[1] = "config" THEN 10 + e[2]
               ELSE 20 + e[2]

InitExporter ==
    /\ uuid_clock = 100
    /\ saves = <<>>
    /\ last_exported_count = 0
    /\ deck = NoDeck
    /\ pc = "idle"
    /\ result = "none"
    /\ stack = <<>>
    /\ deck_file = NoOutput
    /\ media_todo = <<>>
    /\ media_copied = {}
    /\ printed = <<>>
    /\ contents = <<>>
    /\ all_files = <<>>
    /\ calls = <<>>
    /\ exports = <<>>

\* a deck tree whose decks share one config and hold one note each
PlainCollection(n, p, u, m, r) ==
    [n |-> n, parent |-> p, conf |-> [d \in 1..n |-> 1],
     notes |-> [d \in 1..n |-> <<1>>], uuid |-> u, media |-> m, readable |-> r]

\* export_to_directory alone, on any deck tree: any config per deck with the
\* same notes in every deck, or any notes in the exported deck and any in
\* its descendants, or any media list with any part of it unreadable
InitDirectory ==
    /\ InitExporter
    /\ \E n \in 1..MaxDecks : \E p \in Parents(n) :
         \/ \E cf \in [1..n -> 1..MaxConfigs], a \in NoteSeqs :
              /\ collection = [n |-> n, parent |-> p, conf |-> cf,
                               notes |-> [d \in 1..n |-> a],
                               uuid |-> [e \in Entities(n) |-> 0],
                               media |-> <<>>, readable |-> {}]
              /\ args = NoArgs
         \/ \E a \in NoteSeqs, b \in NoteSeqs :
              /\ collection = [n |-> n, parent |-> p, conf |-> [d \in 1..n |-> 1],
                               notes |-> [d \in 1..n |-> IF d = 1 THEN a ELSE b],
                               uuid |-> [e \in Entities(n) |-> 0],
                               media |-> <<>>, readable |-> {}]
              /\ args = NoArgs
         \/ \E m \in MediaLists : \E r \in SUBSET Range(m) :
              /\ collection =
                   PlainCollection(n, p, [e \in Entities(n) |-> 0], m, r)
              /\ args = [NoArgs EXCEPT !.copy_media = TRUE]
    /\ remote = EmptyRepository
    /\ remote_before = EmptyRepository
    /\ remaining = 1

NextDirectory ==
    \/ export_to_directory \/ WriteDeckFile \/ _save_changes \/ _copy_media
    \/ DirectoryReturn

SpecDirectory == InitDirectory /\ [][NextDirectory]_vars

\* export_to_github alone: one deck with at most MaxNotes notes, against any
\* repository, or any notifier and binding of GITHUB_REPO
InitGithub ==
    /\ InitExporter
    /\ \E ns \in NoteSeqs :
         collection = [PlainCollection(1, [d \in {1} |-> 0],
                                       [e \in Entities(1) |-> 0], <<>>, {})
                          EXCEPT !.notes[1] = ns]
    /\ \/ /\ remote \in Repositories(MaxEntries)
          /\ \E sub \in BOOLEAN :
               args = [NoArgs EXCEPT !.create_deck_subdirectory = sub]
       \/ /\ remote \in Repositories(1)
          /\ \E nf \in {"none", "given"}, gr \in {"unbound", "bound"} :
               /\ ~(nf = "given" /\ gr = "bound")
               /\ args = [NoArgs EXCEPT !.notifier = nf, !.GITHUB_REPO = gr]
    /\ remote_before = remote
    /\ remaining = 1

NextGithub ==
    \/ export_to_github \/ GetUser \/ GetRepo \/ ListRoot \/ ListLoop
    \/ ListDone \/ GetFile \/ UpdateFile \/ CreateFile

SpecGithub == InitGithub /\ [][NextGithub]_vars

\* MaxExports exports in succession of one unchanged deck tree, each through
\* either sink; stable ids present or missing per kind of entity
InitTwice ==
    /\ InitExporter
    /\ \E n \in 1..MaxDecks : \E p \in Parents(n) :
         \E has \in [{"deck", "config", "model"} -> BOOLEAN] :
           collection =
             PlainCollection(n, p,
                [e \in Entities(n) |-> IF has[e[1]] THEN StoredId(e) ELSE 0],
                <<1>>, {1})
    /\ args = [NoArgs EXCEPT !.copy_media = TRUE,
                              !.create_deck_subdirectory = TRUE]
    /\ remote \in Repositories(1)
    /\ remote_before = remote
    /\ remaining = MaxExports

Next == NextDirectory \/ NextGithub

Spec == InitTwice /\ [][Next]_vars

\* ------------------------------------------------------------ properties
SaveCount(e) == Count(saves, LAMBDA s : s.entity = e)

IsMetadataSave(s) == s.entity[1] \in {"config", "model"}

MetadataEntities ==
    {ConfigEnt(x) : x \in Range(deck.metadata.deck_configs)}
        \cup {ModelEnt(x) : x \in Range(deck.metadata.models)}

\* the top-level call of _save_changes made by export_to_directory is over
SaveChangesReturned ==
    /\ args.op = "directory"
    /\ pc \in {"copy_media", "copy_loop", "return", "idle"}

Ended == pc = "idle" /\ result # "none"

CallsOf(ops) == {i \in 1..Len(calls) : calls[i].op \in ops}

\* C1: one top-level _save_changes saves every deck config and every note
\* model of the metadata exactly once; the calls made for subdecks save none
C1_MetadataSavedOnce ==
    /\ \A i \in 1..Len(saves) :
         IsMetadataSave(saves[i]) =>
           /\ ~saves[i].child
           /\ saves[i].entity \in MetadataEntities
    /\ \A e \in MetadataEntities : SaveCount(e) <= 1
    /\ SaveChangesReturned => \A e \in MetadataEntities : SaveCount(e) = 1

C1_Witness ==
    /\ pc = "return"
    /\ collection.n >= 3 /\ collection.parent[3] = 2
    /\ \E d1, d2 \in 1..collection.n :
         /\ d1 # d2
         /\ collection.conf[d1] = collection.conf[d2]
         /\ collection.notes[d1] # <<>>
         /\ collection.notes[d1] = collection.notes[d2]
         /\ SaveCount(ConfigEnt(collection.conf[d1])) = 1
         /\ SaveCount(ModelEnt(collection.notes[d1][1])) = 1

\* C7: one top-level _save_changes saves the deck and every descendant once
\* each, a parent before its children, and every deck before the first deck
\* config or note model
C7_DecksSavedOnceInOrder ==
    /\ \A d \in Range(deck.order) : SaveCount(DeckEnt(d)) <= 1
    /\ SaveChangesReturned => \A d \in Range(deck.order) : SaveCount(DeckEnt(d)) = 1
    /\ \A i \in 1..Len(saves) :
         /\ (saves[i].entity[1] = "deck" /\ collection.parent[saves[i].entity[2]] # 0)
              => \E j \in 1..(i - 1) :
                   saves[j].entity = DeckEnt(collection.parent[saves[i].entity[2]])
         /\ IsMetadataSave(saves[i]) =>
              /\ \A d \in Range(deck.order) :
                   \E j \in 1..(i - 1) : saves[j].entity = DeckEnt(d)
              /\ \A j \in (i + 1)..Len(saves) : IsMetadataSave(saves[j])

C7_Witness ==
    /\ pc = "return"
    /\ collection.n >= 3 /\ collection.parent[2] = 1 /\ collection.parent[3] = 1
    /\ SaveCount(DeckEnt(3)) = 1
    /\ \E i \in 1..Len(saves) : IsMetadataSave(saves[i])

\* C4: with copy_media=True and any part of the media unreadable, the export
\* returns the deck directory with the deck file written, every readable
\* file copied and one report per file that could not be copied
C4_MediaFailuresIsolated ==
    (Ended /\ args.op = "directory" /\ args.copy_media) =>
        /\ result = "deck_directory"
        /\ deck_file = json_dumps(collection, deck)
        /\ media_copied = Range(deck.media) \cap collection.readable
        /\ \A f \in Range(deck.media) \ collection.readable :
             Count(printed, LAMBDA x : x = f) = 1
        /\ Range(printed) = Range(deck.media) \ collection.readable

C4_Witness ==
    /\ Ended /\ args.op = "directory" /\ args.copy_media
    /\ Len(deck.media) >= 2
    /\ deck.media[1] \notin collection.readable
    /\ deck.media[2] \in media_copied
    /\ printed = <<deck.media[1]>>

\* the listing is over and line 112 has chosen between update and create
DecisionTaken ==
    /\ args.op = "github"
    /\ \/ pc \in {"fetch", "update", "create"}
       \/ Ended /\ CallsOf({"get_file", "create_file"}) # {}

ExistingSha ==
    Sha(remote_before, CHOOSE i \in FilesAt(remote_before, args.filename) : TRUE)

C3_Original ==
    (Ended /\ args.op = "github" /\ args.notifier = "given") =>
        /\ result \in {"True", "warning_auth", "warning_repo", "warning_unknown"}
        /\ (\E i \in 1..Len(calls) : ~calls[i].ok) =>
             result = (IF calls[Len(calls)].op = "get_user" THEN "warning_auth"
                       ELSE IF calls[Len(calls)].op = "get_repo" THEN "warning_repo"
                       ELSE "warning_unknown")

\* C8: export_to_github attempts authentication and repository lookup at
\* most once each, issues at most one create_file or update_file, and makes
\* no remote call after one that failed
C8_NoRetry ==
    args.op = "github" =>
        /\ Cardinality(CallsOf({"get_user"})) <= 1
        /\ Cardinality(CallsOf({"get_repo"})) <= 1
        /\ Cardinality(CallsOf({"create_file", "update_file"})) <= 1
        /\ \A i \in 1..(Len(calls) - 1) : calls[i].ok

C8_Witness ==
    /\ Ended /\ args.op = "github"
    /\ Len(calls) >= 4
    /\ ~calls[Len(calls)].ok
    /\ calls[Len(calls)].op = "list"

\* C9: when the listing loop ends, all_files holds the path of every
\* non-directory entry exactly once and no directory path, and each
\* directory has been expanded exactly once
C9_Original ==
    (args.op = "github" /\ pc \in {"fetch", "create"}) =>
        /\ \A i \in 1..remote.n :
             IF IsDir(remote, i)
             THEN /\ EntryPath(remote, i) \notin Range(all_files)
                  /\ Cardinality({k \in CallsOf({"list"}) :
                                     calls[k].path = EntryPath(remote, i)}) = 1
             ELSE Count(all_files, LAMBDA f : f = EntryPath(remote, i)) = 1
        /\ Len(all_files) = Cardinality({i \in 1..remote.n : ~IsDir(remote, i)})

\* C10: after the authentication warning or the repository warning nothing
\* was listed, created, updated or saved, and last_exported_count holds the
\* note count of the deck
C10_EarlyWarningFrame ==
    (Ended /\ args.op = "github" /\ result \in {"warning_auth", "warning_repo"}) =>
        /\ CallsOf({"list", "get_file", "create_file", "update_file"}) = {}
        /\ remote = remote_before
        /\ saves = <<>>
        /\ \A e \in DOMAIN collection.uuid : collection.uuid[e] = 0
        /\ last_exported_count = get_note_count(deck)

C10_Witness ==
    /\ Ended /\ args.op = "github" /\ result = "warning_repo"
    /\ args.GITHUB_REPO = "bound"
    /\ last_exported_count >= 1
    /\ Len(calls) = 2

Succeeded(e) == e.result \in {"True", "deck_directory"}

\* C5: a second export of the unchanged deck assigns no new stable id and
\* produces the same serialized output as the first
C5_Original ==
    (Len(exports) >= 2 /\ Succeeded(exports[1])) =>
        /\ exports[2].assigned = {}
        /\ Succeeded(exports[2]) => exports[2].output = exports[1].output

LastExport == exports[Len(exports)]

====
